---- MODULE Spec2Model ----
(***************************************************************************)
(* Workflow orchestration engine of app_builder: the decision function of  *)
(* AgentManager (agents/agent_manager.py) and the execution loop of        *)
(* MultiAgentBuilder (main.py) with its three-strike error system.         *)
(***************************************************************************)
EXTENDS Integers, Sequences, FiniteSets, TLC

(* ---------------------------- bounds ----------------------------------- *)
\* largest value of MAX_LOOPS explored
MaxLoopsBound == 4
\* largest value of MAX_ERRORS explored
MaxErrorsBound == 4
\* number of calls of start() on one builder instance
MaxRuns == 2

\* the largest max_retries explored
MaxRetriesBound == 4

(* --------------------------- vocabulary -------------------------------- *)
\* Python's None
None == "None"

\* the worker names decide_next_agent can produce
Workers ==
    {"LanguageSelector", "Planner", "FrontendCoder", "BackendCoder",
     "TerminalAgent", "Tester", "Debugger", "DocumentationAgent", "GitAgent"}

\* the names _execute_agent routes to a worker class
RoutedAgents ==
    {"LanguageSelector", "Planner", "FrontendCoder", "BackendCoder",
     "TerminalAgent", "Tester", "Debugger", "DocumentationAgent"}

\* the artifacts whose presence the decision function checks
Artifacts == {"PLAN.md", "TEST_REPORT.md", "README.md", ".git"}

\* contents of TEST_REPORT.md explored: an upper-case and a lower-case report
ReportTexts ==
    { <<"F", "A", "I", "L", "E", "D">>, <<"f", "a", "i", "l", "e", "d">> }

\* the project directory start() changes into
ProjectDir == "project/app"

VARIABLES
    pc,               \* "init" (constructed), "loop" (inside _run_agent_loop), "exited", ...
    runs,             \* number of calls of start() so far
    project_path,     \* self.project_path
    language_config,  \* self.language_config: None, "empty" (falsy output) or "cfg"
    loop_counter,     \* self.loop_counter
    max_loops,        \* self.max_loops
    error_count,      \* self.error_count
    max_errors,       \* self.max_errors
    last_action,      \* self.state["last_action"]
    last_error,       \* self.state["last_error"]
    completed_steps,  \* self.state["completed_steps"]
    files,            \* the artifacts present in the working directory
    report_content,   \* text of TEST_REPORT.md (<<>> when absent)
    decision,         \* the decision of the latest loop iteration
    calls,            \* the _execute_agent calls of the latest loop iteration
    logs,             \* the terminal messages logged by the current run
    iters,            \* history: loop bodies entered since construction
    fails_since_ok,   \* history: failed scheduled steps since the last successful call
    run_start,        \* history: loop_counter when the current run started
    run_sched_ok,     \* history: a scheduled call of the current run succeeded
    run_recov_ok,     \* history: a recovery call of the current run succeeded
    debug_task,       \* the task of the recovery call of the latest loop iteration
    raised,           \* history: the calls of the latest iteration whose worker raised
    exit_status,      \* exit status of the command-line process (-1 while it runs)
    retry             \* the locals of one generate_with_retry call

vars ==
    << pc, runs, project_path, language_config, loop_counter, max_loops,
       error_count, max_errors, last_action, last_error, completed_steps,
       files, report_content, decision, calls, logs, iters, fails_since_ok,
       run_start, run_sched_ok, run_recov_ok, debug_task, raised,
       exit_status, retry >>

(* ------------------- agents/agent_manager.py --------------------------- *)

\* keyword in report_content, for sequences of characters
Contains(keyword, text) ==
    \E i \in 1..(Len(text) - Len(keyword) + 1) :
        SubSeq(text, i, i + Len(keyword) - 1) = keyword

failure_keywords ==
    { <<"F", "A", "I", "L">>,
      <<"F", "A", "I", "L", "E", "D">>,
      <<"E", "r", "r", "o", "r">>,
      <<"E", "R", "R", "O", "R">>,
      <<"E", "x", "c", "e", "p", "t", "i", "o", "n">> }

_check_file_exists(path, filename) ==
    IF path = "" THEN FALSE ELSE filename \in files

_tests_failed(path) ==
    IF ~ _check_file_exists(path, "TEST_REPORT.md")
    THEN FALSE
    ELSE \E keyword \in failure_keywords : Contains(keyword, report_content)

\* a version-control check that is always satisfied
_check_git_initialized_always(path) ==
    TRUE

_check_git_initialized(path) ==
    IF path = "" THEN FALSE ELSE ".git" \in files

\* a decision function that asks for a language only before the first step
NoLanguageConfigFirstStepOnly(context) ==
    "language_config" \notin DOMAIN context /\ context["last_action"] = None

\* rule 1: "language_config" not in context
NoLanguageConfig(context) ==
    "language_config" \notin DOMAIN context

\* a decision function whose rule 2 looks at README.md
NoPlanChecksReadme(context) ==
    ~ _check_file_exists(context["project_path"], "README.md")

\* rule 2: not self._check_file_exists(project_path, "PLAN.md")
NoPlan(context) ==
    ~ _check_file_exists(context["project_path"], "PLAN.md")

\* a progression that goes from the frontend straight to the dependencies
StateProgressionSkipsBackend(la) ==
    CASE la = "Planner" -> "FrontendCoder"
      [] la = "FrontendCoder" -> "TerminalAgent"
      [] la = "BackendCoder" -> "TerminalAgent"
      [] OTHER -> None

\* rules 3 to 5: the worker that follows last_action, None when none does
StateProgression(la) ==
    CASE la = "Planner" -> "FrontendCoder"
      [] la = "FrontendCoder" -> "BackendCoder"
      [] la = "BackendCoder" -> "TerminalAgent"
      [] OTHER -> None

\* a rule 7 that never re-runs the tests after the Debugger
Rule7NoRetest(la) ==
    IF la = "Tester" THEN "Debugger"
    ELSE IF la = "Debugger" THEN "Debugger"
    ELSE "Tester"

\* rule 7, the branch taken when the tests failed
Rule7(la) ==
    IF la = "Debugger" THEN "Tester"
    ELSE IF la = "Tester" THEN "Debugger"
    ELSE "Tester"

\* the if / elif chain, rules 1 to 10
RuleTable(context) ==
    LET la == context["last_action"]
        path == context["project_path"]
    IN  IF NoLanguageConfig(context) THEN "LanguageSelector"
        ELSE IF NoPlan(context) THEN "Planner"
        ELSE IF StateProgression(la) # None THEN StateProgression(la)
        ELSE IF ~ _check_file_exists(path, "TEST_REPORT.md") THEN "Tester"
        ELSE IF _tests_failed(path) THEN Rule7(la)
        ELSE IF ~ _check_file_exists(path, "README.md") THEN "DocumentationAgent"
        ELSE IF ~ _check_git_initialized(path) THEN "GitAgent"
        ELSE "FINISHED"

\* an anti-loop guard that only protects the Tester
AntiLoopTesterOnly(la, next_agent) ==
    la # None /\ next_agent = la /\ next_agent = "Tester"

\* the anti-loop condition
AntiLoop(la, next_agent) ==
    la # None /\ next_agent = la /\ next_agent # "FINISHED"

reasoning_map(next_agent, path) ==
    CASE next_agent = "LanguageSelector" -> "Language configuration is missing."
      [] next_agent = "Planner" -> "Implementation plan (PLAN.md) is missing."
      [] next_agent = "FrontendCoder" -> "Plan complete, starting frontend development."
      [] next_agent = "BackendCoder" -> "Frontend complete, moving to backend."
      [] next_agent = "TerminalAgent" -> "Code complete, installing dependencies."
      [] next_agent = "Tester" ->
            IF ~ _tests_failed(path) THEN "Test report is missing."
            ELSE "Debugging applied, re-running tests."
      [] next_agent = "Debugger" -> "Tests failed, triggering debugger."
      [] next_agent = "DocumentationAgent" -> "Project documentation is missing."
      [] next_agent = "GitAgent" -> "Initializing version control for generated project."
      [] next_agent = "FINISHED" -> "All steps complete."
      [] OTHER -> "Proceeding to next step."

decide_next_agent(context) ==
    LET next_agent == RuleTable(context)
    IN  IF AntiLoop(context["last_action"], next_agent)
        THEN [ next_agent |-> "FINISHED",
               reasoning |-> "Loop prevented: " \o next_agent \o " already ran." ]
        ELSE [ next_agent |-> next_agent,
               reasoning |-> reasoning_map(next_agent, context["project_path"]) ]

(* ----------------------------- main.py --------------------------------- *)

\* the fields of the context the decision reads; language_config is a key of
\* the context only when self.language_config is truthy
_get_project_context ==
    LET base == [ project_path |-> project_path, last_action |-> last_action ]
    IN  IF language_config \in {None, "empty"}
        THEN base
        ELSE [ project_path |-> project_path, last_action |-> last_action,
               language_config |-> language_config ]

NoDecision == [ next_agent |-> None, reasoning |-> None ]

\* the states of the working directory: TEST_REPORT.md has a text iff present
FsStates ==
    { fs \in [ files : SUBSET Artifacts, report : ReportTexts \cup {<<>>} ] :
        (fs.report = <<>>) <=> ("TEST_REPORT.md" \notin fs.files) }


\* the uniform result of a worker, with the state the call leaves behind;
\* raised tells whether the result was built by the except clause
Result(ok, err, fs, lang) ==
    [ success |-> ok, error |-> err, fs |-> fs, language_config |-> lang,
      raised |-> FALSE ]

\* str(e) of an exception raised by a worker
ExceptionText == "ExceptionText"

\* an except clause that drops the exception text
ExceptionResultNoText(text, fs, lang) ==
    [ success |-> FALSE, error |-> None, fs |-> fs, language_config |-> lang,
      raised |-> TRUE ]

\* the except clause of _execute_agent
ExceptionResult(text, fs, lang) ==
    [ success |-> FALSE, error |-> text, fs |-> fs, language_config |-> lang,
      raised |-> TRUE ]

\* an else branch that reports the unknown worker as done
UnknownAgentResultOk(agent_name, fs, lang) ==
    Result(TRUE, None, fs, lang)

\* the else branch of the routing
UnknownAgentResult(agent_name, fs, lang) ==
    Result(FALSE, "Unknown agent: " \o agent_name, fs, lang)

\* write_file can create or overwrite files, never remove one
Written(fs) ==
    { f \in FsStates : fs.files \subseteq f.files }

\* the results the run method of a routed worker can return
ReturnedResults(agent_name, fs, lang) ==
    IF agent_name = "LanguageSelector"
    THEN { Result(TRUE, None, fs, out) : out \in {"empty", "cfg"} }
            \cup { Result(FALSE, "WorkerError", fs, lang) }
    ELSE IF agent_name = "Planner"
    THEN { Result(TRUE, None,
                  [ files |-> fs.files \cup {"PLAN.md"}, report |-> fs.report ],
                  lang),
           Result(FALSE, "WorkerError", fs, lang) }
    ELSE IF agent_name \in {"FrontendCoder", "BackendCoder"}
    THEN { Result(TRUE, None, f, lang) : f \in Written(fs) }
            \cup { Result(FALSE, "WorkerError", fs, lang) }
    ELSE IF agent_name = "TerminalAgent"
    THEN { Result(TRUE, None, f, lang) : f \in FsStates }
            \cup { Result(FALSE, "WorkerError", f, lang) : f \in FsStates }
    ELSE { Result(TRUE, None, fs, lang), Result(FALSE, "WorkerError", fs, lang) }

\* the possible results of _execute_agent(agent_name, task) in working
\* directory fs: the worker's verdict is not determined by the loop's state.
\* A worker raises before it touches the directory (while building its prompt)
_execute_agent(agent_name, fs, lang) ==
    IF agent_name \in RoutedAgents
    THEN ReturnedResults(agent_name, fs, lang)
            \cup { ExceptionResult(ExceptionText, fs, lang) }
    ELSE { UnknownAgentResult(agent_name, fs, lang) }

\* a loop that counts every iteration twice
NextLoopCounterTwice(c) ==
    c + 2

\* self.loop_counter += 1
NextLoopCounter(c) ==
    c + 1

\* self.error_count += 1
ErrorCountOnFailure(ec) ==
    ec + 1

\* a strike system that asks the Debugger only at the first strike
CallsDebuggerFirstStrikeOnly(ec) ==
    ec = 1

\* if self.error_count == 1 or self.error_count == 2
CallsDebugger(ec) ==
    ec = 1 \/ ec = 2

\* the literal of the strike-3 branch
StrikeLimit == 3

\* a strike-3 branch that gives the worker one more attempt
AbortsLate(ec) ==
    ec >= StrikeLimit + 1

\* elif self.error_count >= 3
Aborts(ec) ==
    ec >= StrikeLimit

\* self.error_count = 0 after a successful scheduled worker
ErrorCountOnSuccess(ec) ==
    0

\* a recovery that forgets to reset the counter
ErrorCountOnRecoveryKept(ec) ==
    ec

\* self.error_count = 0 after a successful Debugger recovery
ErrorCountOnRecovery(ec) ==
    0

\* a recovery whose own failure is counted as a strike
ErrorCountOnFailedRecoveryCounted(ec) ==
    ec + 1

\* the else branch of the recovery: only logs "Debugger also failed"
ErrorCountOnFailedRecovery(ec) ==
    ec

\* a history that also records the workers that failed
CompletedOnFailureAppends(steps, agent) ==
    Append(steps, agent)

\* the failure branch leaves completed_steps alone
CompletedOnFailure(steps, agent) ==
    steps

\* a history that puts the newest step first
CompletedOnSuccessPrepends(steps, agent) ==
    << agent >> \o steps

\* self.state["completed_steps"].append(next_agent)
CompletedOnSuccess(steps, agent) ==
    Append(steps, agent)

\* debug_task = f"Fix error from {next_agent}: {result['error']}"
DebugTask(agent, error) ==
    "Fix error from " \o agent \o ": " \o error

\* the calls of an iteration whose result came from the except clause
RaisedIn(results) ==
    { i \in DOMAIN results : results[i].raised }

\* main() returns after builder.start(), whatever the outcome of the run
ExitStatusOf(outcome) ==
    0

\* the messages logged when the loop is left with loop counter c
ExitLogs(base, c) ==
    base \cup (IF c >= max_loops THEN {"Max loops reached"} ELSE {})

(* ----------------------- utils/gemini_client.py ------------------------ *)

\* the default of the parameter max_retries
DefaultMaxRetries == 3

\* what generate can return and the exceptions it can raise
GeneratedTexts == {"text1", "text2"}

RetryErrors == {"RateLimit", "Timeout", "ServerError"}

\* the locals on entry of generate_with_retry(prompt, max_retries)
RetryEntry(max_retries) ==
    [ max_retries |-> max_retries,
      attempt |-> 0,
      generate_calls |-> 0,
      errors |-> <<>>,
      slept |-> <<>>,
      result |-> None,
      raised |-> None ]

\* a backoff that also waits after the last attempt
SleepsAfterAlways(attempt, max_retries) ==
    TRUE

\* if attempt < max_retries
SleepsAfter(attempt, max_retries) ==
    attempt < max_retries

\* time.sleep(2 ** (attempt - 1))
BackoffSeconds(attempt) ==
    2 ^ (attempt - 1)

Call(agent, kind, ok) ==
    [ agent |-> agent, kind |-> kind, success |-> ok ]

CurrentFs ==
    [ files |-> files, report |-> report_content ]

Init ==
    /\ pc = "init"
    /\ runs = 0
    /\ project_path = ""
    /\ language_config = None
    /\ loop_counter = 0
    /\ max_loops \in 1..MaxLoopsBound
    /\ error_count = 0
    /\ max_errors \in 1..MaxErrorsBound
    /\ last_action = None
    /\ last_error = None
    /\ completed_steps = <<>>
    /\ files = {}
    /\ report_content = <<>>
    /\ decision = NoDecision
    /\ calls = <<>>
    /\ logs = {}
    /\ iters = 0
    /\ fails_since_ok = 0
    /\ run_start = 0
    /\ run_sched_ok = FALSE
    /\ run_recov_ok = FALSE
    /\ debug_task = None
    /\ raised = {}
    /\ exit_status = -1
    /\ retry = RetryEntry(DefaultMaxRetries)

\* start(user_prompt) up to the call of _run_agent_loop: the project directory
\* may already exist with any content (os.makedirs(..., exist_ok=True))
Start ==
    /\ pc \in {"init", "exited"}
    /\ runs < MaxRuns
    /\ runs' = runs + 1
    /\ project_path' = ProjectDir
    /\ \E fs \in FsStates :
          /\ files' = fs.files
          /\ report_content' = fs.report
    /\ pc' = "loop"
    /\ decision' = NoDecision
    /\ calls' = <<>>
    /\ logs' = {}
    /\ run_start' = loop_counter
    /\ run_sched_ok' = FALSE
    /\ run_recov_ok' = FALSE
    /\ debug_task' = None
    /\ raised' = {}
    /\ UNCHANGED << language_config, loop_counter, max_loops, error_count,
                    max_errors, last_action, last_error, completed_steps,
                    iters, fails_since_ok, exit_status,
                    retry >>

\* the head of every loop iteration: the while test, the increment, the decision
IterHead(d) ==
    /\ pc = "loop"
    /\ loop_counter < max_loops
    /\ d = decide_next_agent(_get_project_context)
    /\ loop_counter' = NextLoopCounter(loop_counter)
    /\ decision' = d
    /\ iters' = iters + 1
    /\ UNCHANGED << runs, project_path, max_loops, max_errors, run_start,
                    exit_status,
                    retry >>

\* a loop whose FINISHED branch lacks the break
IterFinishedNoBreak ==
    \E d \in { decide_next_agent(_get_project_context) } :
        /\ IterHead(d)
        /\ d.next_agent = "FINISHED"
        /\ \E r \in _execute_agent(d.next_agent, CurrentFs, language_config) :
              /\ last_error' = r.error
              /\ raised' = RaisedIn(<< r >>)
        /\ calls' = << Call(d.next_agent, "scheduled", FALSE) >>
        /\ error_count' = ErrorCountOnFailure(error_count)
        /\ debug_task' = None
        /\ logs' = logs \cup {"PROJECT COMPLETE!"}
        /\ pc' = "loop"
        /\ UNCHANGED << language_config, last_action, completed_steps, files,
                        report_content, fails_since_ok, run_sched_ok,
                        run_recov_ok >>

\* iteration whose decision is FINISHED: break, then the code after the loop
IterFinished ==
    \E d \in { decide_next_agent(_get_project_context) } :
        /\ IterHead(d)
        /\ d.next_agent = "FINISHED"
        /\ calls' = <<>>
        /\ debug_task' = None
        /\ raised' = {}
        /\ logs' = ExitLogs(logs \cup {"PROJECT COMPLETE!"}, loop_counter')
        /\ pc' = "exited"
        /\ UNCHANGED << language_config, error_count, last_action, last_error,
                        completed_steps, files, report_content,
                        fails_since_ok, run_sched_ok, run_recov_ok >>

\* iteration whose scheduled worker succeeds
IterSuccess ==
    \E d \in { decide_next_agent(_get_project_context) } :
        /\ IterHead(d)
        /\ d.next_agent # "FINISHED"
        /\ \E r \in _execute_agent(d.next_agent, CurrentFs, language_config) :
              /\ r.success
              /\ language_config' =
                    IF d.next_agent = "LanguageSelector"
                    THEN r.language_config ELSE language_config
              /\ files' = r.fs.files
              /\ report_content' = r.fs.report
              /\ raised' = RaisedIn(<< r >>)
        /\ last_action' = d.next_agent
        /\ completed_steps' = CompletedOnSuccess(completed_steps, d.next_agent)
        /\ error_count' = ErrorCountOnSuccess(error_count)
        /\ calls' = << Call(d.next_agent, "scheduled", TRUE) >>
        /\ debug_task' = None
        /\ fails_since_ok' = 0
        /\ run_sched_ok' = TRUE
        /\ pc' = "loop"
        /\ UNCHANGED << last_error, logs, run_recov_ok >>

\* iteration whose scheduled worker fails at strike 1 or 2 and whose Debugger
\* recovery succeeds
IterRecovered ==
    \E d \in { decide_next_agent(_get_project_context) } :
        /\ IterHead(d)
        /\ d.next_agent # "FINISHED"
        /\ \E r \in _execute_agent(d.next_agent, CurrentFs, language_config) :
              /\ ~ r.success
              /\ last_error' = r.error
              /\ CallsDebugger(ErrorCountOnFailure(error_count))
              /\ d.next_agent # "Debugger"
              /\ debug_task' = DebugTask(d.next_agent, r.error)
              /\ \E dr \in _execute_agent("Debugger", r.fs, language_config) :
                    /\ dr.success
                    /\ files' = dr.fs.files
                    /\ report_content' = dr.fs.report
                    /\ raised' = RaisedIn(<< r, dr >>)
        /\ error_count' = ErrorCountOnRecovery(ErrorCountOnFailure(error_count))
        /\ last_action' = "Debugger"
        /\ completed_steps' = CompletedOnFailure(completed_steps, d.next_agent)
        /\ calls' = << Call(d.next_agent, "scheduled", FALSE),
                       Call("Debugger", "recovery", TRUE) >>
        /\ fails_since_ok' = 0
        /\ run_recov_ok' = TRUE
        /\ pc' = "loop"
        /\ UNCHANGED << language_config, logs, run_sched_ok >>

\* iteration whose scheduled worker fails at strike 1 or 2 and whose Debugger
\* recovery fails too
IterNotRecovered ==
    \E d \in { decide_next_agent(_get_project_context) } :
        /\ IterHead(d)
        /\ d.next_agent # "FINISHED"
        /\ \E r \in _execute_agent(d.next_agent, CurrentFs, language_config) :
              /\ ~ r.success
              /\ last_error' = r.error
              /\ CallsDebugger(ErrorCountOnFailure(error_count))
              /\ d.next_agent # "Debugger"
              /\ debug_task' = DebugTask(d.next_agent, r.error)
              /\ \E dr \in _execute_agent("Debugger", r.fs, language_config) :
                    /\ ~ dr.success
                    /\ files' = dr.fs.files
                    /\ report_content' = dr.fs.report
                    /\ raised' = RaisedIn(<< r, dr >>)
        /\ error_count' =
              ErrorCountOnFailedRecovery(ErrorCountOnFailure(error_count))
        /\ completed_steps' = CompletedOnFailure(completed_steps, d.next_agent)
        /\ calls' = << Call(d.next_agent, "scheduled", FALSE),
                       Call("Debugger", "recovery", FALSE) >>
        /\ fails_since_ok' = fails_since_ok + 1
        /\ pc' = "loop"
        /\ UNCHANGED << language_config, last_action, logs,
                        run_sched_ok, run_recov_ok >>

\* iteration whose scheduled worker fails and no recovery is attempted: the
\* failed worker is the Debugger itself (or no strike branch applies)
IterNoRecovery ==
    \E d \in { decide_next_agent(_get_project_context) } :
        /\ IterHead(d)
        /\ d.next_agent # "FINISHED"
        /\ \E r \in _execute_agent(d.next_agent, CurrentFs, language_config) :
              /\ ~ r.success
              /\ last_error' = r.error
              /\ files' = r.fs.files
              /\ report_content' = r.fs.report
              /\ raised' = RaisedIn(<< r >>)
        /\ LET ec == ErrorCountOnFailure(error_count)
           IN  \/ CallsDebugger(ec) /\ d.next_agent = "Debugger"
               \/ ~ CallsDebugger(ec) /\ ~ Aborts(ec)
        /\ error_count' = ErrorCountOnFailure(error_count)
        /\ completed_steps' = CompletedOnFailure(completed_steps, d.next_agent)
        /\ calls' = << Call(d.next_agent, "scheduled", FALSE) >>
        /\ debug_task' = None
        /\ fails_since_ok' = fails_since_ok + 1
        /\ pc' = "loop"
        /\ UNCHANGED << language_config, last_action, logs,
                        run_sched_ok, run_recov_ok >>

\* iteration whose scheduled worker fails at strike 3: break, then the code
\* after the loop
IterAbort ==
    \E d \in { decide_next_agent(_get_project_context) } :
        /\ IterHead(d)
        /\ d.next_agent # "FINISHED"
        /\ \E r \in _execute_agent(d.next_agent, CurrentFs, language_config) :
              /\ ~ r.success
              /\ last_error' = r.error
              /\ files' = r.fs.files
              /\ report_content' = r.fs.report
              /\ raised' = RaisedIn(<< r >>)
        /\ ~ CallsDebugger(ErrorCountOnFailure(error_count))
        /\ Aborts(ErrorCountOnFailure(error_count))
        /\ error_count' = ErrorCountOnFailure(error_count)
        /\ completed_steps' = CompletedOnFailure(completed_steps, d.next_agent)
        /\ calls' = << Call(d.next_agent, "scheduled", FALSE) >>
        /\ debug_task' = None
        /\ fails_since_ok' = fails_since_ok + 1
        /\ logs' = ExitLogs(logs \cup {"Max errors reached"}, loop_counter')
        /\ pc' = "exited"
        /\ UNCHANGED << language_config, last_action,
                        run_sched_ok, run_recov_ok >>

\* the while test fails: the code after the loop
LoopExit ==
    /\ pc = "loop"
    /\ ~ (loop_counter < max_loops)
    /\ logs' = ExitLogs(logs, loop_counter)
    /\ pc' = "exited"
    /\ UNCHANGED << runs, project_path, language_config, loop_counter,
                    max_loops, error_count, max_errors, last_action,
                    last_error, completed_steps, files, report_content,
                    decision, calls, iters, fails_since_ok, run_start,
                    run_sched_ok, run_recov_ok, debug_task, raised,
                    exit_status,
                    retry >>

\* the terminal outcome the logs of the ended run report
Outcome ==
    IF "PROJECT COMPLETE!" \in logs THEN "finished"
    ELSE IF "Max errors reached" \in logs THEN "aborted"
    ELSE "exhausted"

\* main() after builder.start(user_prompt) has returned: the process ends
MainReturn ==
    /\ pc = "exited"
    /\ pc' = "returned"
    /\ exit_status' = ExitStatusOf(Outcome)
    /\ UNCHANGED << runs, project_path, language_config, loop_counter,
                    max_loops, error_count, max_errors, last_action,
                    last_error, completed_steps, files, report_content,
                    decision, calls, logs, iters, fails_since_ok, run_start,
                    run_sched_ok, run_recov_ok, debug_task, raised,
                    retry >>

Next ==
    \/ Start
    \/ IterFinished
    \/ IterSuccess
    \/ IterRecovered
    \/ IterNotRecovered
    \/ IterNoRecovery
    \/ IterAbort
    \/ LoopExit
    \/ MainReturn

Spec == Init /\ [][Next]_vars

\* a step of _run_agent_loop
LoopStep ==
    \/ IterFinished
    \/ IterSuccess
    \/ IterRecovered
    \/ IterNotRecovered
    \/ IterNoRecovery
    \/ IterAbort
    \/ LoopExit

\* the default of MAX_ERRORS
DefaultMaxErrors == 3

\* the constructed builder with max_errors at its default
InitFair ==
    /\ Init
    /\ max_errors = DefaultMaxErrors

\* single-threaded execution: every worker call returns and the loop goes on
FairSpec == InitFair /\ [][Next]_vars /\ WF_vars(LoopStep)

TypeOK ==
    /\ pc \in {"init", "loop", "exited", "returned"}
    /\ loop_counter \in 0..MaxLoopsBound
    /\ last_action \in RoutedAgents \cup {None}


(* ------------- decide_next_agent as a function of its inputs ----------- *)

\* every context and every working directory the decision can be asked about
InitDecide ==
    /\ pc = "decide"
    /\ runs = 0
    /\ project_path \in {"", ProjectDir}
    /\ language_config \in {None, "empty", "cfg"}
    /\ loop_counter = 0
    /\ max_loops = MaxLoopsBound
    /\ error_count = 0
    /\ max_errors = MaxErrorsBound
    /\ last_action \in Workers \cup {None}
    /\ last_error = None
    /\ completed_steps = <<>>
    /\ \E fs \in FsStates :
          /\ files = fs.files
          /\ report_content = fs.report
    /\ decision = NoDecision
    /\ calls = <<>>
    /\ logs = {}
    /\ iters = 0
    /\ fails_since_ok = 0
    /\ run_start = 0
    /\ run_sched_ok = FALSE
    /\ run_recov_ok = FALSE
    /\ debug_task = None
    /\ raised = {}
    /\ exit_status = -1
    /\ retry = RetryEntry(DefaultMaxRetries)

\* a decision function that records its answer in the context it was given
DecideCallWritesContext ==
    /\ pc \in {"decide", "decided"}
    /\ decision' = decide_next_agent(_get_project_context)
    /\ last_action' = decision'.next_agent
    /\ pc' = IF pc = "decide" THEN "decided" ELSE "redecided"
    /\ UNCHANGED << runs, project_path, language_config, loop_counter,
                    max_loops, error_count, max_errors,
                    last_error, completed_steps, files, report_content,
                    calls, logs, iters, fails_since_ok, run_start,
                    run_sched_ok, run_recov_ok, debug_task, raised,
                    exit_status,
                    retry >>

\* one call of decide_next_agent(context); a second call with the same
\* context follows the first
DecideCall ==
    /\ pc \in {"decide", "decided"}
    /\ decision' = decide_next_agent(_get_project_context)
    /\ pc' = IF pc = "decide" THEN "decided" ELSE "redecided"
    /\ UNCHANGED << runs, project_path, language_config, loop_counter,
                    max_loops, error_count, max_errors, last_action,
                    last_error, completed_steps, files, report_content,
                    calls, logs, iters, fails_since_ok, run_start,
                    run_sched_ok, run_recov_ok, debug_task, raised,
                    exit_status,
                    retry >>

NextDecide ==
    DecideCall

SpecDecide == InitDecide /\ [][NextDecide]_vars

(* ------------------------- generate_with_retry ------------------------- *)

InitRetry ==
    /\ pc = "retry"
    /\ runs = 0
    /\ project_path = ""
    /\ language_config = None
    /\ loop_counter = 0
    /\ max_loops = MaxLoopsBound
    /\ error_count = 0
    /\ max_errors = MaxErrorsBound
    /\ last_action = None
    /\ last_error = None
    /\ completed_steps = <<>>
    /\ files = {}
    /\ report_content = <<>>
    /\ decision = NoDecision
    /\ calls = <<>>
    /\ logs = {}
    /\ iters = 0
    /\ fails_since_ok = 0
    /\ run_start = 0
    /\ run_sched_ok = FALSE
    /\ run_recov_ok = FALSE
    /\ debug_task = None
    /\ raised = {}
    /\ exit_status = -1
    /\ \E n \in 0..MaxRetriesBound : retry = RetryEntry(n)

\* what generate_with_retry leaves alone: everything of the builder
RetryFrame ==
    UNCHANGED << runs, project_path, language_config, loop_counter,
                 max_loops, error_count, max_errors, last_action,
                 last_error, completed_steps, files, report_content,
                 decision, calls, logs, iters, fails_since_ok, run_start,
                 run_sched_ok, run_recov_ok, debug_task, raised,
                 exit_status >>

\* an iteration of the for loop whose generate call returns
GenerateReturns ==
    /\ pc = "retry"
    /\ retry.attempt < retry.max_retries
    /\ \E text \in GeneratedTexts :
          retry' = [ retry EXCEPT !.attempt = @ + 1,
                                  !.generate_calls = @ + 1,
                                  !.result = text ]
    /\ pc' = "retry_returned"
    /\ RetryFrame

\* an iteration of the for loop whose generate call raises: sleep and go on
\* with the next value of the range (the function ends when there is none),
\* or re-raise
GenerateRaises ==
    /\ pc = "retry"
    /\ retry.attempt < retry.max_retries
    /\ \E e \in RetryErrors :
          LET attempt == retry.attempt + 1
          IN  IF SleepsAfter(attempt, retry.max_retries)
              THEN /\ retry' = [ retry EXCEPT
                                    !.attempt = attempt,
                                    !.generate_calls = @ + 1,
                                    !.errors = Append(@, e),
                                    !.slept = Append(@, BackoffSeconds(attempt)) ]
                   /\ pc' = IF attempt < retry.max_retries
                            THEN "retry" ELSE "retry_returned"
              ELSE /\ retry' = [ retry EXCEPT
                                    !.attempt = attempt,
                                    !.generate_calls = @ + 1,
                                    !.errors = Append(@, e),
                                    !.raised = e ]
                   /\ pc' = "retry_raised"
    /\ RetryFrame

\* range(1, max_retries + 1) is empty: the function falls off its end
RetryLoopEmpty ==
    /\ pc = "retry"
    /\ ~ (retry.attempt < retry.max_retries)
    /\ pc' = "retry_returned"
    /\ UNCHANGED retry
    /\ RetryFrame

NextRetry ==
    \/ GenerateReturns
    \/ GenerateRaises
    \/ RetryLoopEmpty

SpecRetry == InitRetry /\ [][NextRetry]_vars

(* ------------------------------ claims --------------------------------- *)

\* C1: whenever the worker chosen by the rule table equals last_action and
\* is not FINISHED, decide_next_agent returns FINISHED, whichever rule chose.
C1_AntiLoopGuard ==
    (pc = "decided"
        /\ RuleTable(_get_project_context) = last_action
        /\ RuleTable(_get_project_context) # "FINISHED")
    => decision.next_agent = "FINISHED"

\* C1 witness: rule 9 chose GitAgent, the last action, and the answer is FINISHED
C1_Witness ==
    /\ pc = "decided"
    /\ last_action = "GitAgent"
    /\ RuleTable(_get_project_context) = "GitAgent"
    /\ decision.next_agent = "FINISHED"

\* C2 as stated: without a language configuration in the context the decision
\* is LanguageSelector for every last_action.
C2_Original ==
    (pc = "decided" /\ "language_config" \notin DOMAIN _get_project_context)
    => decision.next_agent = "LanguageSelector"

\* C2 amended: without a language configuration in the context the decision
\* is LanguageSelector for every last_action other than LanguageSelector, and
\* FINISHED (loop prevented) when last_action is LanguageSelector.
C2_LanguageSelectorFirst ==
    (pc = "decided" /\ "language_config" \notin DOMAIN _get_project_context)
    => decision.next_agent =
          IF last_action = "LanguageSelector" THEN "FINISHED"
          ELSE "LanguageSelector"

\* C2 witness: no configuration, every artifact present, last action Tester
C2_Witness ==
    /\ pc = "decided"
    /\ language_config = None
    /\ files = Artifacts
    /\ last_action = "Tester"
    /\ decision.next_agent = "LanguageSelector"

\* C3 as stated: with a language configuration and no PLAN.md the decision
\* is Planner for every last_action.
C3_Original ==
    (pc = "decided"
        /\ "language_config" \in DOMAIN _get_project_context
        /\ "PLAN.md" \notin files)
    => decision.next_agent = "Planner"

\* C3 amended: with a language configuration and no PLAN.md the decision is
\* Planner for every last_action other than Planner, and FINISHED (loop
\* prevented) when last_action is Planner.
C3_PlannerSecond ==
    (pc = "decided"
        /\ "language_config" \in DOMAIN _get_project_context
        /\ "PLAN.md" \notin files)
    => decision.next_agent =
          IF last_action = "Planner" THEN "FINISHED" ELSE "Planner"

\* C3 witness: configuration present, PLAN.md absent, the other artifacts
\* present, last action BackendCoder
C3_Witness ==
    /\ pc = "decided"
    /\ language_config = "cfg"
    /\ files = Artifacts \ {"PLAN.md"}
    /\ last_action = "BackendCoder"
    /\ decision.next_agent = "Planner"


\* the checkpoints of the rule table, on the current context and directory
AllCheckpoints ==
    /\ "language_config" \in DOMAIN _get_project_context
    /\ "PLAN.md" \in files
    /\ "TEST_REPORT.md" \in files
    /\ ~ (\E keyword \in failure_keywords : Contains(keyword, report_content))
    /\ "README.md" \in files
    /\ ".git" \in files

\* _run_agent_loop has returned
RunEnded ==
    pc \in {"exited", "returned"}

FinishedRun ==
    RunEnded /\ "PROJECT COMPLETE!" \in logs

AbortedRun ==
    RunEnded /\ "Max errors reached" \in logs

NoSuccess(cs) ==
    \A i \in DOMAIN cs : ~ cs[i].success

\* C4 as stated: whenever a run stops on a FINISHED decision, all checkpoints
\* are satisfied.
C4_Original ==
    FinishedRun => AllCheckpoints

\* C4 amended: whenever a run stops on a FINISHED decision made by rule 10
\* (reasoning "All steps complete.", not the anti-loop guard), all
\* checkpoints are satisfied at that moment.
C4_FinishedByRuleTen ==
    (FinishedRun /\ decision.reasoning = "All steps complete.")
    => AllCheckpoints

\* C4 witness: a run that stopped on rule 10
C4_Witness ==
    /\ FinishedRun
    /\ decision.reasoning = "All steps complete."
    /\ Len(completed_steps) >= 1

\* C5: after N consecutive failed steps with no successful call in between
\* error_count is N, for N up to the abort threshold, and an iteration with a
\* successful call (scheduled or recovery) leaves error_count at 0.
C5_EscalationCount ==
    /\ fails_since_ok <= StrikeLimit => error_count = fails_since_ok
    /\ (\E i \in DOMAIN calls : calls[i].success) => error_count = 0

\* C5 witness: three failed steps in a row
C5_Witness ==
    /\ fails_since_ok = 3
    /\ error_count = 3
    /\ Len(calls) = 1
    /\ ~ calls[1].success

C7_StrikeThree ==
    /\ [] ( (calls # <<>> /\ ~ calls[1].success /\ fails_since_ok >= 3)
              => /\ Len(calls) = 1
                 /\ AbortedRun
                 /\ "PROJECT COMPLETE!" \notin logs )
    /\ [][ AbortedRun => (iters' = iters /\ calls' \in {calls, <<>>}) ]_vars

\* C7 witness: a run aborted at its third failed step
C7_Witness ==
    /\ AbortedRun
    /\ fails_since_ok = 3
    /\ loop_counter - run_start = 3
    /\ calls = << Call(decision.next_agent, "scheduled", FALSE) >>

C9_Original ==
    /\ AbortedRun => error_count >= max_errors
    /\ pc = "loop" => error_count < max_errors

\* C10: loop_counter never decreases, grows by exactly 1 per iteration, never
\* exceeds max_loops, no run has more than max_loops iterations, and a
\* running loop is eventually left (the loop is never running for ever).
C10_StepCounter ==
    /\ [] ( /\ loop_counter = iters
            /\ loop_counter <= max_loops
            /\ loop_counter - run_start <= max_loops )
    /\ [][ loop_counter' = loop_counter \/ loop_counter' = loop_counter + 1 ]_vars
    /\ []<>(pc # "loop")

\* C10 witness: a run that used all its iterations
C10_Witness ==
    /\ pc = "exited"
    /\ loop_counter = max_loops
    /\ loop_counter - run_start = max_loops
    /\ max_loops >= 3


\* C11 as stated: at loop exit the length of completed_steps equals loop_counter.
C11_Original ==
    RunEnded => Len(completed_steps) = loop_counter

\* C11 amended: at loop exit the length of completed_steps is at most
\* loop_counter, and strictly less on a FINISHED exit and on an abort (the
\* FINISHED iteration and every failed iteration count but append nothing).
C11_HistoryAtMostSteps ==
    RunEnded =>
        /\ Len(completed_steps) <= loop_counter
        /\ (FinishedRun \/ AbortedRun) => Len(completed_steps) < loop_counter

\* C11 witness: a run aborted in its fourth iteration after one success
C11_Witness ==
    /\ AbortedRun
    /\ loop_counter = 4
    /\ Len(completed_steps) = 1

\* C12 as stated: an ended run reports exactly one of the three outcomes, so
\* "Max loops reached" is never logged together with the finished or the
\* aborted message.
C12_Original ==
    RunEnded => Cardinality(logs) = 1

\* C13 as stated: the exit status of the process after a finished run differs
\* from the one after an exhausted run and from the one after an aborted run.
C13_Original ==
    pc = "returned" =>
        \A other \in {"finished", "exhausted", "aborted"} \ {Outcome} :
            (Outcome = "finished" \/ other = "finished")
                => exit_status # ExitStatusOf(other)

\* C14: when a scheduled worker other than Debugger fails and the counter is
\* then 1 or 2, the same iteration holds exactly one further call, the
\* Debugger as recovery worker, with the task built from the failed worker's
\* name and error; a successful recovery sets the counter to 0 and last_action
\* to Debugger; a failed Debugger is followed by no recovery call.
C14_RecoveryCall ==
    [][ (iters' = iters + 1 /\ calls' # <<>> /\ ~ calls'[1].success) =>
            /\ (error_count + 1 \in {1, 2} /\ calls'[1].agent # "Debugger") =>
                  /\ Len(calls') = 2
                  /\ calls'[2].agent = "Debugger"
                  /\ calls'[2].kind = "recovery"
                  /\ debug_task' = "Fix error from " \o calls'[1].agent
                                        \o ": " \o last_error'
                  /\ calls'[2].success =>
                        (error_count' = 0 /\ last_action' = "Debugger")
            /\ calls'[1].agent = "Debugger" =>
                  (Len(calls') = 1 /\ debug_task' = None)
      ]_vars

\* C14 witness: at the second strike the Debugger repaired a failed Planner
C14_Witness ==
    /\ Len(calls) = 2
    /\ calls[1] = Call("Planner", "scheduled", FALSE)
    /\ calls[2] = Call("Debugger", "recovery", TRUE)
    /\ debug_task = "Fix error from Planner: WorkerError"
    /\ fails_since_ok = 0
    /\ error_count = 0
    /\ last_action = "Debugger"
    /\ run_recov_ok
    /\ iters >= 3

\* C15: dispatching a name with no worker class returns, without raising, the
\* failed result with error "Unknown agent: <name>", and the loop handles it
\* as any worker failure: counter + 1, Debugger at strikes 1 and 2, abort at
\* strike 3, and the loop goes on or ends in its normal way.
C15_UnknownAgent ==
    /\ [](\A name \in (Workers \cup {"FINISHED"}) \ RoutedAgents :
            _execute_agent(name, CurrentFs, language_config) =
                { [ success |-> FALSE,
                    error |-> "Unknown agent: " \o name,
                    fs |-> CurrentFs,
                    language_config |-> language_config,
                    raised |-> FALSE ] })
    /\ [][ (iters' = iters + 1 /\ calls' # <<>>
                /\ calls'[1].agent \notin RoutedAgents) =>
              /\ ~ calls'[1].success
              /\ 1 \notin raised'
              /\ last_error' = "Unknown agent: " \o calls'[1].agent
              /\ pc' \in {"loop", "exited"}
              /\ error_count' =
                    IF Len(calls') = 2 /\ calls'[2].success
                    THEN 0 ELSE error_count + 1
              /\ (error_count + 1 \in {1, 2}) =>
                    (Len(calls') = 2 /\ calls'[2].agent = "Debugger")
              /\ (error_count + 1 >= 3) =>
                    (pc' = "exited" /\ "Max errors reached" \in logs')
         ]_vars

\* C15 witness: GitAgent was scheduled, is unknown, and the recovery failed
C15_Witness ==
    /\ Len(calls) = 2
    /\ calls[1] = Call("GitAgent", "scheduled", FALSE)
    /\ ~ calls[2].success
    /\ last_error = "Unknown agent: GitAgent"
    /\ error_count = 1
    /\ pc = "loop"

\* C16: an exception raised by a scheduled or a recovery worker leaves the
\* loop running or normally ended; it becomes a failed result whose error is
\* the exception text and has the effects of a returned failure (counter,
\* recovery call, abort, no entry in completed_steps).
C16_ExceptionsContained ==
    [][ (iters' = iters + 1 /\ raised' # {}) =>
            /\ raised' \subseteq DOMAIN calls'
            /\ \A i \in raised' : ~ calls'[i].success
            /\ pc' \in {"loop", "exited"}
            /\ completed_steps' = completed_steps
            /\ 1 \in raised' =>
                  /\ last_error' = ExceptionText
                  /\ error_count' =
                        IF Len(calls') = 2 /\ calls'[2].success
                        THEN 0 ELSE error_count + 1
                  /\ (error_count + 1 \in {1, 2}
                        /\ calls'[1].agent # "Debugger") =>
                        /\ Len(calls') = 2
                        /\ debug_task' = "Fix error from " \o calls'[1].agent
                                              \o ": " \o ExceptionText
                  /\ (error_count + 1 >= 3) =>
                        (pc' = "exited" /\ "Max errors reached" \in logs')
            /\ 2 \in raised' =>
                  (error_count' = error_count + 1
                        /\ last_action' = last_action)
      ]_vars

\* C16 witness: the scheduled worker and the recovery worker both raised at
\* the second strike
C16_Witness ==
    /\ raised = {1, 2}
    /\ last_error = ExceptionText
    /\ error_count = 2
    /\ debug_task = "Fix error from Tester: ExceptionText"
    /\ pc = "loop"

\* C17: in the iteration whose decision is FINISHED no worker is called, the
\* loop is left, and last_action, completed_steps and the failure counter
\* keep their values; after a finished run no iteration follows and the three
\* keep their values.
C17_FinishedStops ==
    /\ [][ (iters' = iters + 1 /\ decision'.next_agent = "FINISHED") =>
              /\ calls' = <<>>
              /\ pc' = "exited"
              /\ UNCHANGED << last_action, completed_steps, error_count >>
         ]_vars
    /\ [][ FinishedRun =>
              /\ iters' = iters
              /\ UNCHANGED << last_action, completed_steps, error_count >>
         ]_vars

\* C17 witness: FINISHED was decided in the third iteration, after two steps
C17_Witness ==
    /\ FinishedRun
    /\ decision.next_agent = "FINISHED"
    /\ calls = <<>>
    /\ iters = 3
    /\ Len(completed_steps) = 2
    /\ last_action = "Tester"
    /\ error_count = 0

\* C18 as stated: the scheduled workers of two successive iterations of a run
\* always differ.
C18_Original ==
    [][ (iters' = iters + 1 /\ calls # <<>> /\ calls' # <<>>)
            => calls'[1].agent # calls[1].agent ]_vars

\* C18 amended: a worker is never scheduled in the iteration that follows one
\* in which it was scheduled and succeeded; the scheduled worker is repeated
\* only after it failed (with or without a recovery).
C18_NoRepeatAfterSuccess ==
    [][ (iters' = iters + 1 /\ calls # <<>> /\ calls' # <<>>
            /\ calls'[1].agent = calls[1].agent)
            => ~ calls[1].success ]_vars

\* C18 witness: two iterations of one run, both successful, different workers
C18_Witness ==
    /\ runs = 1
    /\ iters = 2
    /\ Len(completed_steps) = 2
    /\ completed_steps[1] # completed_steps[2]
    /\ calls = << Call(completed_steps[2], "scheduled", TRUE) >>

\* C19: with configuration and plan in place, last_action outside Planner,
\* FrontendCoder and BackendCoder, and a test report that indicates failure,
\* the decision is Tester after Debugger, Debugger after Tester and Tester
\* after anything else.
C19_RuleSeven ==
    (pc = "decided"
        /\ "language_config" \in DOMAIN _get_project_context
        /\ _check_file_exists(project_path, "PLAN.md")
        /\ last_action \notin {"Planner", "FrontendCoder", "BackendCoder"}
        /\ _tests_failed(project_path))
    => decision.next_agent =
          IF last_action = "Debugger" THEN "Tester"
          ELSE IF last_action = "Tester" THEN "Debugger"
          ELSE "Tester"

\* C19 witness: the retest after a Debugger run on a failed report
C19_Witness ==
    /\ pc = "decided"
    /\ language_config = "cfg"
    /\ project_path = ProjectDir
    /\ files = Artifacts
    /\ report_content = <<"F", "A", "I", "L", "E", "D">>
    /\ last_action = "Debugger"
    /\ decision.next_agent = "Tester"

\* C20: with configuration and plan in place, Planner is followed by
\* FrontendCoder, FrontendCoder by BackendCoder and BackendCoder by
\* TerminalAgent, whatever the test report, README and git facts are.
C20_StateProgression ==
    (pc = "decided"
        /\ "language_config" \in DOMAIN _get_project_context
        /\ _check_file_exists(project_path, "PLAN.md"))
    => /\ last_action = "Planner" => decision.next_agent = "FrontendCoder"
       /\ last_action = "FrontendCoder" => decision.next_agent = "BackendCoder"
       /\ last_action = "BackendCoder" => decision.next_agent = "TerminalAgent"

\* C20 witness: after FrontendCoder, with a failed report and no README
C20_Witness ==
    /\ pc = "decided"
    /\ language_config = "cfg"
    /\ project_path = ProjectDir
    /\ files = {"PLAN.md", "TEST_REPORT.md"}
    /\ report_content = <<"F", "A", "I", "L", "E", "D">>
    /\ last_action = "FrontendCoder"
    /\ decision.next_agent = "BackendCoder"

C22_Original ==
    (pc = "loop" /\ decision = NoDecision) =>
        /\ loop_counter = 0
        /\ error_count = 0
        /\ last_action = None
        /\ completed_steps = <<>>

\* C23 as stated: a report is classified as failed exactly when it contains
\* one of the failure keywords in any letter case.
C23_Original ==
    LET ToLower == [ ch \in {"F", "A", "I", "L", "E", "D", "R", "O"} |->
                        CASE ch = "F" -> "f" [] ch = "A" -> "a"
                          [] ch = "I" -> "i" [] ch = "L" -> "l"
                          [] ch = "E" -> "e" [] ch = "D" -> "d"
                          [] ch = "R" -> "r" [] ch = "O" -> "o" ]
        lower(text) == [ i \in 1..Len(text) |->
                            IF text[i] \in DOMAIN ToLower
                            THEN ToLower[text[i]] ELSE text[i] ]
    IN  (pc = "decided" /\ project_path # "" /\ "TEST_REPORT.md" \in files) =>
            ( _tests_failed(project_path) <=>
                \E keyword \in failure_keywords :
                    Contains(lower(keyword), lower(report_content)) )

\* C24 as stated: every scheduled worker is routed to a worker class, and a
\* scheduled call never fails as an unknown agent.
C24_Original ==
    calls # <<>> =>
        /\ calls[1].agent \in RoutedAgents
        /\ ~ calls[1].success =>
              last_error # "Unknown agent: " \o calls[1].agent

\* C25 as stated, for the first run of a builder in which the Planner was
\* scheduled and succeeded (the Planner is scheduled only without PLAN.md, and
\* nothing that runs before it writes a file, so that run started without a
\* plan): when Tester is scheduled, FrontendCoder, BackendCoder and
\* TerminalAgent have completed, in that order.
C25_Original ==
    (runs = 1 /\ calls # <<>> /\ calls[1].agent = "Tester"
        /\ \E p \in DOMAIN completed_steps : completed_steps[p] = "Planner")
    => \E i, j, k \in DOMAIN completed_steps :
          /\ i < j
          /\ j < k
          /\ completed_steps[i] = "FrontendCoder"
          /\ completed_steps[j] = "BackendCoder"
          /\ completed_steps[k] = "TerminalAgent"

\* C26: a failed scheduled step whose recovery is not attempted or fails
\* leaves last_action, completed_steps and the language configuration as they
\* were and adds one to the failure counter; if the directory is unchanged
\* too, the decision function asked again answers the worker that just failed.
C26_FailureFrame ==
    [][ (iters' = iters + 1 /\ calls' # <<>> /\ ~ calls'[1].success
            /\ ~ (Len(calls') = 2 /\ calls'[2].success)) =>
            /\ UNCHANGED << last_action, completed_steps, language_config >>
            /\ error_count' = error_count + 1
            /\ (files' = files /\ report_content' = report_content) =>
                  (decide_next_agent(_get_project_context).next_agent)'
                        = calls'[1].agent
      ]_vars

\* C26 witness: the Planner failed twice in a row, the recoveries failed too
C26_Witness ==
    /\ pc = "loop"
    /\ Len(calls) = 2
    /\ calls[1] = Call("Planner", "scheduled", FALSE)
    /\ ~ calls[2].success
    /\ fails_since_ok = 2
    /\ error_count = 2
    /\ last_action = "LanguageSelector"
    /\ completed_steps = << "LanguageSelector" >>
    /\ decide_next_agent(_get_project_context).next_agent = "Planner"

\* C27: completed_steps grows by exactly the scheduled worker of an iteration
\* when that worker succeeded and is otherwise unchanged (failed calls and
\* recovery calls are never appended); last_action is absent, or the last
\* element of completed_steps, or Debugger.
C27_CompletedSteps ==
    /\ [](\/ last_action \in {None, "Debugger"}
          \/ /\ completed_steps # <<>>
             /\ last_action = completed_steps[Len(completed_steps)])
    /\ [][ completed_steps' =
              IF iters' = iters + 1 /\ calls' # <<>> /\ calls'[1].success
              THEN Append(completed_steps, calls'[1].agent)
              ELSE completed_steps ]_vars

\* C27 witness: after two completed steps a recovery succeeded and was not
\* appended
C27_Witness ==
    /\ completed_steps = << "LanguageSelector", "Planner" >>
    /\ last_action = "Debugger"
    /\ Len(calls) = 2
    /\ calls[1] = Call("FrontendCoder", "scheduled", FALSE)
    /\ calls[2] = Call("Debugger", "recovery", TRUE)
    /\ iters = 3

\* C28 as stated: once a LanguageSelector call has succeeded, language_config
\* is a key of every later context, whatever the output was.
C28_Original ==
    (\E i \in DOMAIN completed_steps : completed_steps[i] = "LanguageSelector")
    => "language_config" \in DOMAIN _get_project_context

\* C29: in an iteration that starts with configuration and plan in place, a
\* test report that indicates failure and last_action Tester or Debugger, the
\* decision is the other of the two (never FINISHED by loop prevention), that
\* worker is called, and if it succeeds the loop goes on with it as
\* last_action and no terminal message: the cycle is left only at max_loops.
C29_RetestCycle ==
    [][ (iters' = iters + 1
            /\ "language_config" \in DOMAIN _get_project_context
            /\ _check_file_exists(project_path, "PLAN.md")
            /\ last_action \in {"Tester", "Debugger"}
            /\ _tests_failed(project_path)) =>
            /\ decision'.next_agent =
                  IF last_action = "Tester" THEN "Debugger" ELSE "Tester"
            /\ calls' # <<>>
            /\ calls'[1].agent = decision'.next_agent
            /\ calls'[1].success =>
                  /\ pc' = "loop"
                  /\ last_action' = decision'.next_agent
                  /\ logs' = logs
      ]_vars

\* C29 witness: a run of four steps that ended in the retest cycle at
\* max_loops
C29_Witness ==
    /\ pc = "exited"
    /\ runs = 1
    /\ logs = {"Max loops reached"}
    /\ loop_counter = 4
    /\ _tests_failed(project_path)
    /\ completed_steps =
          << "LanguageSelector", "Tester", "Debugger", "Tester" >>

\* C30: generate_with_retry with max_retries = n >= 1 calls generate at most n
\* times; it returns the text of the first successful attempt, all earlier
\* attempts having failed, and calls no more; when n attempts failed it raises
\* the exception of the n-th; it has slept 2^(k-1) seconds after each failed
\* attempt k < n and not after attempt n.
C30_RetryBackoff ==
    /\ []((pc \in {"retry", "retry_returned", "retry_raised"}
              /\ retry.max_retries >= 1) =>
            /\ retry.generate_calls <= retry.max_retries
            /\ retry.generate_calls = retry.attempt
            /\ pc = "retry" => Len(retry.errors) = retry.generate_calls
            /\ pc = "retry_returned" =>
                  /\ retry.result \in GeneratedTexts
                  /\ retry.raised = None
                  /\ Len(retry.errors) = retry.generate_calls - 1
            /\ pc = "retry_raised" =>
                  /\ retry.result = None
                  /\ retry.generate_calls = retry.max_retries
                  /\ Len(retry.errors) = retry.max_retries
                  /\ retry.raised = retry.errors[retry.max_retries]
            /\ Len(retry.slept) =
                  IF Len(retry.errors) < retry.max_retries
                  THEN Len(retry.errors) ELSE retry.max_retries - 1
            /\ \A k \in DOMAIN retry.slept : retry.slept[k] = 2 ^ (k - 1))
    /\ [][ (pc \in {"retry_returned", "retry_raised"}) => UNCHANGED retry ]_vars

\* C30 witness: three attempts failed, with waits of 1 and 2 seconds, and the
\* third exception was raised
C30_Witness ==
    /\ pc = "retry_raised"
    /\ retry.max_retries = 3
    /\ retry.generate_calls = 3
    /\ retry.errors = << "RateLimit", "ServerError", "Timeout" >>
    /\ retry.slept = << 1, 2 >>
    /\ retry.raised = "Timeout"

====
